---- MODULE Spec2Model ----
(***************************************************************************)
(* Model of the HTTP media server (package http, Handler.StartServer and    *)
(* the HLS stream handlers) together with pkg/hls.Segment.                  *)
(*                                                                          *)
(* One process per inbound HTTP request (net/http runs every handler in     *)
(* its own goroutine), the main goroutine of StartServer, the signal        *)
(* goroutine it spawns, and one external mediafilesegmenter process per     *)
(* call of hls.Segment.  The workspace is modelled by the existence of the  *)
(* temporary directory, of each per-song directory and of the playlist and  *)
(* segment file inside it.                                                  *)
(***************************************************************************)
EXTENDS Integers, FiniteSets, Sequences

\* Number of HTTP requests the clients issue during one run of the server;
\* request r is the r-th request the server accepts.
NumRequests == 2
\* Number of songs in the library; identifier NumSongs + 1 is in no library.
NumSongs == 2

Requests == 1..NumRequests
LibrarySongs == 1..NumSongs
SongIDs == 1..(NumSongs + 1)

\* Request paths: /songs/<id>/stream, /songs/<id>/<rest>, /songs/<id>.
Kinds == {"playlist", "segment", "song"}

\* The name the segmenter gives the segment file, "fileSequence0.aac", and
\* the <rest> of the segment paths the clients request, as character strings:
\* that name, "fileSequence0/aac", "../fileSequence0.aac" and "/etc".
SegPrefix == <<"f", "i", "l", "e", "S", "e", "q", "u", "e", "n", "c", "e">>
SegSuffix == <<"a", "a", "c">>
SegmentFileName == SegPrefix \o <<"0", ".">> \o SegSuffix
SegCandidates ==
    { SegmentFileName,
      SegPrefix \o <<"0", "/">> \o SegSuffix,
      <<".", ".", "/">> \o SegmentFileName,
      <<"/", "e", "t", "c">> }

Digits == {"0", "1", "2", "3", "4", "5", "6", "7", "8", "9"}

\* The route variable {seg:fileSequence[0-9]+.aac}: mux anchors the pattern
\* and uses it as written, so the "." stands for any one character.
MatchesSegRoute(s) ==
    \E n \in 1..Len(s) :
        /\ Len(s) = Len(SegPrefix) + n + 1 + Len(SegSuffix)
        /\ SubSeq(s, 1, Len(SegPrefix)) = SegPrefix
        /\ \A i \in (Len(SegPrefix) + 1)..(Len(SegPrefix) + n) :
               s[i] \in Digits
        /\ SubSeq(s, Len(SegPrefix) + n + 2, Len(s)) = SegSuffix

VARIABLES
    mainPc,          \* position of the goroutine running StartServer
    sigPc,           \* position of the goroutine started at "go func()"
    sigPending,      \* a signal is buffered in the channel sigint (capacity 1)
    tempDir,         \* the directory h.TempDir exists
    removals,        \* number of times os.RemoveAll(h.TempDir) has run
    listening,       \* srv has an open listener and accepts connections
    inShutdown,      \* srv.Shutdown has been called
    idleConnsClosed, \* the channel idleConnsClosed has been closed
    dir,             \* dir[s]: the directory <TempDir>/<s> exists
    playlist,        \* playlist[s]: state of <TempDir>/<s>/prog_index.m3u8
    segfile,         \* segfile[s]: state of <TempDir>/<s>/fileSequence0.aac
    pc,              \* pc[r]: position of the handler of request r
    kind,            \* kind[r]: the route request r matched
    id,              \* id[r]: mux.Vars(r)["id"]
    lookupRes,       \* lookupRes[r]: outcome of h.SongService.Song(id)
    mkdirRes,        \* mkdirRes[r]: outcome of os.Mkdir in servePlaylist
    invoked,         \* invoked[r]: request r has called hls.Segment
    runPhase,        \* runPhase[r]: how far r's segmenter process has written
    runRes,          \* runRes[r]: the error value hls.Segment returned to r
    resp,            \* resp[r]: the response written to r's client
    firstTime,       \* firstTime[r]: no playlist of id[r] existed when r began
    answeredAtStart, \* requests already answered when r began
    runningAtStart,  \* requests whose segmenter was running when r began
    statRes,         \* statRes[r]: what os.Stat told r about the playlist
    disconnected,    \* disconnected[r]: r's client has closed the connection
    seg,             \* seg[r]: the <rest> of r's path, mux.Vars(r)["seg"]
    listenErr        \* the value srv.ListenAndServe returned to StartServer

lifeVars == <<mainPc, sigPc, sigPending, removals, listening, inShutdown,
              idleConnsClosed, listenErr>>
fsVars == <<tempDir, dir, playlist, segfile>>
reqVars == <<pc, kind, id, lookupRes, mkdirRes, invoked, runPhase, runRes,
             resp, firstTime, answeredAtStart, runningAtStart, statRes,
             disconnected, seg>>
vars == <<mainPc, sigPc, sigPending, tempDir, removals, listening, inShutdown,
          idleConnsClosed, dir, playlist, segfile, pc, kind, id, lookupRes,
          mkdirRes, invoked, runPhase, runRes, resp, firstTime,
          answeredAtStart, runningAtStart, statRes, disconnected, seg,
          listenErr>>

FileStates == {"absent", "partial", "complete"}

TypeOK ==
    /\ mainPc \in {"setTempDir", "spawn", "listen", "serving", "waitClosed",
                   "returned", "fatal", "killed"}
    /\ sigPc \in {"notSpawned", "notify", "waitSig", "callShutdown",
                  "shutdownWait", "removeAll", "closeChan", "done"}
    /\ sigPending \in BOOLEAN
    /\ tempDir \in BOOLEAN
    /\ removals \in 0..1
    /\ listening \in BOOLEAN
    /\ inShutdown \in BOOLEAN
    /\ idleConnsClosed \in BOOLEAN
    /\ dir \in [SongIDs -> BOOLEAN]
    /\ playlist \in [SongIDs -> FileStates]
    /\ segfile \in [SongIDs -> FileStates]
    /\ pc \in [Requests -> {"idle", "notFound", "lookup", "stat", "mkdir",
                            "segment", "running", "serve", "serveSeg",
                            "done"}]
    /\ kind \in [Requests -> Kinds]
    /\ id \in [Requests -> SongIDs]
    /\ lookupRes \in [Requests -> {"none", "err", "nil", "found"}]
    /\ mkdirRes \in [Requests -> {"none", "ok", "exists", "ioerr"}]
    /\ invoked \in [Requests -> BOOLEAN]
    /\ runPhase \in [Requests -> 0..3]
    /\ runRes \in [Requests -> {"none", "nil", "err"}]
    /\ resp \in [Requests -> {"none", "InternalServerError", "NotFound",
                              "data", "404 page not found",
                              "file partial", "file complete"}]
    /\ firstTime \in [Requests -> BOOLEAN]
    /\ answeredAtStart \in [Requests -> SUBSET Requests]
    /\ runningAtStart \in [Requests -> SUBSET Requests]
    /\ statRes \in [Requests -> {"none", "exists", "notExist"}]
    /\ disconnected \in [Requests -> BOOLEAN]
    /\ seg \in [Requests -> SegCandidates]
    /\ listenErr \in {"none", "ErrServerClosed", "bind"}

Init ==
    /\ mainPc = "setTempDir"
    /\ sigPc = "notSpawned"
    /\ sigPending = FALSE
    /\ tempDir = FALSE
    /\ removals = 0
    /\ listening = FALSE
    /\ inShutdown = FALSE
    /\ idleConnsClosed = FALSE
    /\ dir = [s \in SongIDs |-> FALSE]
    /\ playlist = [s \in SongIDs |-> "absent"]
    /\ segfile = [s \in SongIDs |-> "absent"]
    /\ pc = [r \in Requests |-> "idle"]
    /\ kind = [r \in Requests |-> "playlist"]
    /\ id = [r \in Requests |-> 1]
    /\ lookupRes = [r \in Requests |-> "none"]
    /\ mkdirRes = [r \in Requests |-> "none"]
    /\ invoked = [r \in Requests |-> FALSE]
    /\ runPhase = [r \in Requests |-> 0]
    /\ runRes = [r \in Requests |-> "none"]
    /\ resp = [r \in Requests |-> "none"]
    /\ firstTime = [r \in Requests |-> FALSE]
    /\ answeredAtStart = [r \in Requests |-> {}]
    /\ runningAtStart = [r \in Requests |-> {}]
    /\ statRes = [r \in Requests |-> "none"]
    /\ disconnected = [r \in Requests |-> FALSE]
    /\ seg = [r \in Requests |-> SegmentFileName]
    /\ listenErr = "none"

\* The process has neither exited through Logger.Fatal nor been killed.
Alive == mainPc \notin {"fatal", "killed"}

\* A handler goroutine is executing for request r.
InFlight(r) == pc[r] \notin {"idle", "done"}

(***************************************************************************)
(* StartServer: the main goroutine.                                         *)
(***************************************************************************)

\* setTempDir: ioutil.TempDir succeeds, or fails and Logger.Fatal exits.
SetTempDir ==
    /\ mainPc = "setTempDir"
    /\ \/ /\ tempDir' = TRUE
          /\ mainPc' = "spawn"
       \/ /\ tempDir' = tempDir
          /\ mainPc' = "fatal"
    /\ UNCHANGED <<sigPc, sigPending, removals, listening, inShutdown,
                   idleConnsClosed, listenErr, dir, playlist, segfile>>
    /\ UNCHANGED reqVars

\* Routes are registered, the server value is created, "go func()" runs.
SpawnSignalGoroutine ==
    /\ mainPc = "spawn"
    /\ mainPc' = "listen"
    /\ sigPc' = "notify"
    /\ UNCHANGED <<sigPending, removals, listening, inShutdown,
                   idleConnsClosed, listenErr>>
    /\ UNCHANGED fsVars
    /\ UNCHANGED reqVars

\* srv.ListenAndServe is called: after Shutdown it returns ErrServerClosed at
\* once; otherwise it binds the port and serves, or fails to bind and returns.
ListenAndServe ==
    /\ mainPc = "listen"
    /\ IF inShutdown
         THEN /\ mainPc' = "waitClosed"
              /\ listening' = listening
              /\ listenErr' = "ErrServerClosed"
         ELSE \/ /\ mainPc' = "serving"
                 /\ listening' = TRUE
                 /\ listenErr' = listenErr
              \/ /\ mainPc' = "waitClosed"
                 /\ listening' = listening
                 /\ listenErr' = "bind"
    /\ UNCHANGED <<sigPc, sigPending, removals, inShutdown, idleConnsClosed>>
    /\ UNCHANGED fsVars
    /\ UNCHANGED reqVars

\* srv.ListenAndServe returns ErrServerClosed once Shutdown has been called.
ListenAndServeReturns ==
    /\ mainPc = "serving"
    /\ inShutdown
    /\ mainPc' = "waitClosed"
    /\ listenErr' = "ErrServerClosed"
    /\ UNCHANGED <<sigPc, sigPending, removals, listening, inShutdown,
                   idleConnsClosed>>
    /\ UNCHANGED fsVars
    /\ UNCHANGED reqVars

\* A StartServer that returns as soon as ListenAndServe has failed.
StartServerReturnsEarly ==
    /\ mainPc = "waitClosed"
    /\ idleConnsClosed \/ listenErr = "bind"
    /\ mainPc' = "returned"
    /\ UNCHANGED <<sigPc, sigPending, removals, listening, inShutdown,
                   idleConnsClosed, listenErr>>
    /\ UNCHANGED fsVars
    /\ UNCHANGED reqVars

\* <-idleConnsClosed, then StartServer returns.
StartServerReturns ==
    /\ mainPc = "waitClosed"
    /\ idleConnsClosed
    /\ mainPc' = "returned"
    /\ UNCHANGED <<sigPc, sigPending, removals, listening, inShutdown,
                   idleConnsClosed, listenErr>>
    /\ UNCHANGED fsVars
    /\ UNCHANGED reqVars

(***************************************************************************)
(* StartServer: the signal goroutine.                                       *)
(***************************************************************************)

\* sigint := make(chan os.Signal, 1); signal.Notify(sigint, os.Interrupt)
Notify ==
    /\ Alive
    /\ sigPc = "notify"
    /\ sigPc' = "waitSig"
    /\ UNCHANGED <<mainPc, sigPending, removals, listening, inShutdown,
                   idleConnsClosed, listenErr>>
    /\ UNCHANGED fsVars
    /\ UNCHANGED reqVars

\* The environment delivers an interrupt signal.  Before signal.Notify has
\* registered the channel the default disposition ends the process; afterwards
\* the signal is buffered in sigint (one slot, further signals are dropped).
Interrupt ==
    /\ Alive
    /\ mainPc # "returned"
    /\ IF sigPc \in {"notSpawned", "notify"}
         THEN /\ mainPc' = "killed"
              /\ sigPending' = sigPending
         ELSE /\ mainPc' = mainPc
              /\ sigPending' = TRUE
    /\ UNCHANGED <<sigPc, removals, listening, inShutdown, idleConnsClosed,
                   listenErr>>
    /\ UNCHANGED fsVars
    /\ UNCHANGED reqVars

\* <-sigint
ReceiveSignal ==
    /\ Alive
    /\ sigPc = "waitSig"
    /\ sigPending
    /\ sigPending' = FALSE
    /\ sigPc' = "callShutdown"
    /\ UNCHANGED <<mainPc, removals, listening, inShutdown, idleConnsClosed,
                   listenErr>>
    /\ UNCHANGED fsVars
    /\ UNCHANGED reqVars

\* The goroutine goes on to the cleanup without shutting the server down.
ShutdownSkipped ==
    /\ Alive
    /\ sigPc = "callShutdown"
    /\ sigPc' = "shutdownWait"
    /\ UNCHANGED <<mainPc, sigPending, removals, listening, inShutdown,
                   idleConnsClosed, listenErr>>
    /\ UNCHANGED fsVars
    /\ UNCHANGED reqVars

\* srv.Shutdown(context.Background()) first closes the listeners.
ShutdownBegin ==
    /\ Alive
    /\ sigPc = "callShutdown"
    /\ inShutdown' = TRUE
    /\ listening' = FALSE
    /\ sigPc' = "shutdownWait"
    /\ UNCHANGED <<mainPc, sigPending, removals, idleConnsClosed, listenErr>>
    /\ UNCHANGED fsVars
    /\ UNCHANGED reqVars

\* A Shutdown that returns while handlers are still running.
ShutdownDoesNotWait == TRUE

\* srv.Shutdown waits, without a deadline (context.Background()), until no
\* connection is serving a request.
ShutdownDrained == \A r \in Requests : ~InFlight(r)

ShutdownReturns ==
    /\ Alive
    /\ sigPc = "shutdownWait"
    /\ ShutdownDrained
    /\ sigPc' = "removeAll"
    /\ UNCHANGED <<mainPc, sigPending, removals, listening, inShutdown,
                   idleConnsClosed, listenErr>>
    /\ UNCHANGED fsVars
    /\ UNCHANGED reqVars

\* os.RemoveAll(h.TempDir)
RemoveAll ==
    /\ Alive
    /\ sigPc = "removeAll"
    /\ tempDir' = FALSE
    /\ dir' = [s \in SongIDs |-> FALSE]
    /\ playlist' = [s \in SongIDs |-> "absent"]
    /\ segfile' = [s \in SongIDs |-> "absent"]
    /\ removals' = removals + 1
    /\ sigPc' = "closeChan"
    /\ UNCHANGED <<mainPc, sigPending, listening, inShutdown, idleConnsClosed,
                   listenErr>>
    /\ UNCHANGED reqVars

\* close(idleConnsClosed)
CloseIdleConnsClosed ==
    /\ Alive
    /\ sigPc = "closeChan"
    /\ idleConnsClosed' = TRUE
    /\ sigPc' = "done"
    /\ UNCHANGED <<mainPc, sigPending, removals, listening, inShutdown,
                   listenErr>>
    /\ UNCHANGED fsVars
    /\ UNCHANGED reqVars

(***************************************************************************)
(* Collaborators and response writers.                                      *)
(***************************************************************************)

\* h.SongService.Song(id): a library error, or the song, or nil when the
\* library holds no song of that identifier.
SongLookup(i) == {"err", IF i \in LibrarySongs THEN "found" ELSE "nil"}

\* handleError: the error object written for a status code.
handleError(code) ==
    IF code = 500 THEN "InternalServerError"
    ELSE IF code = 404 THEN "NotFound"
    ELSE "none"

\* handleNotFound
handleNotFound == handleError(404)

\* http.ServeFile on a file in the given state: the bytes present in the file
\* at that moment, or net/http's own 404 reply when the file does not exist.
ServeFile(f) ==
    IF f = "absent" THEN "404 page not found"
    ELSE IF f = "partial" THEN "file partial"
    ELSE "file complete"

\* A handler that takes a nil song for a song.
LookupBranchNilServes(res) ==
    IF res = "err" THEN "error" ELSE "serve"

\* The state of the file <TempDir>/<s>/<name>: the segmenter writes no
\* segment file but the one it names.
FileAt(s, name) == IF name = SegmentFileName THEN segfile[s] ELSE "absent"

\* The branch a handler takes on the outcome (song, err) of the lookup.
LookupBranch(res) ==
    IF res = "err" THEN "error"
    ELSE IF res = "nil" THEN "notFound"
    ELSE "serve"

\* net/http accepts a connection and starts a handler only while the server
\* has an open listener, which Shutdown closes.
AcceptsConnections == listening /\ ~inShutdown

(***************************************************************************)
(* Request handlers.                                                        *)
(***************************************************************************)

\* The server accepts a client's connection and routes its request; the
\* handler goroutine starts.
Begin(r, k, i) ==
    /\ Alive
    /\ AcceptsConnections
    /\ pc[r] = "idle"
    /\ \A q \in Requests : q < r => pc[q] # "idle"
    /\ \E s \in (IF k = "segment" THEN SegCandidates ELSE {SegmentFileName}) :
          /\ seg' = [seg EXCEPT ![r] = s]
          /\ pc' = [pc EXCEPT ![r] =
                       IF k = "segment" /\ ~MatchesSegRoute(s)
                         THEN "notFound" ELSE "lookup"]
    /\ kind' = [kind EXCEPT ![r] = k]
    /\ id' = [id EXCEPT ![r] = i]
    /\ firstTime' = [firstTime EXCEPT ![r] = (playlist[i] = "absent")]
    /\ answeredAtStart' =
           [answeredAtStart EXCEPT ![r] = {q \in Requests : pc[q] = "done"}]
    /\ runningAtStart' =
           [runningAtStart EXCEPT ![r] = {q \in Requests : pc[q] = "running"}]
    /\ UNCHANGED <<lookupRes, mkdirRes, invoked, runPhase, runRes, resp,
                   statRes, disconnected>>
    /\ UNCHANGED lifeVars
    /\ UNCHANGED fsVars

\* The catch-all route PathPrefix("/"): handleNotFound answers a path that
\* matches no other route.
CatchAllNotFound(r) ==
    /\ Alive
    /\ pc[r] = "notFound"
    /\ resp' = [resp EXCEPT ![r] = handleNotFound]
    /\ pc' = [pc EXCEPT ![r] = "done"]
    /\ UNCHANGED <<kind, id, lookupRes, mkdirRes, invoked, runPhase, runRes,
                   firstTime, answeredAtStart, runningAtStart>>
    /\ UNCHANGED <<statRes, disconnected, seg>>
    /\ UNCHANGED lifeVars
    /\ UNCHANGED fsVars

\* handleGetStreamPlaylist, handleGetStreamSegment, handleGetSongByID: the
\* lookup and the branch on its outcome.
Lookup(r) ==
    /\ Alive
    /\ pc[r] = "lookup"
    /\ \E res \in SongLookup(id[r]) :
          /\ lookupRes' = [lookupRes EXCEPT ![r] = res]
          /\ IF LookupBranch(res) = "error"
               THEN /\ resp' = [resp EXCEPT ![r] = handleError(500)]
                    /\ pc' = [pc EXCEPT ![r] = "done"]
             ELSE IF LookupBranch(res) = "notFound"
               THEN /\ resp' = [resp EXCEPT ![r] = handleNotFound]
                    /\ pc' = [pc EXCEPT ![r] = "done"]
             ELSE IF kind[r] = "playlist"
               THEN /\ resp' = resp
                    /\ pc' = [pc EXCEPT ![r] = "stat"]
             ELSE IF kind[r] = "segment"
               THEN /\ resp' = resp
                    /\ pc' = [pc EXCEPT ![r] = "serveSeg"]
             ELSE /\ resp' = [resp EXCEPT ![r] = "data"]
                  /\ pc' = [pc EXCEPT ![r] = "done"]
    /\ UNCHANGED <<kind, id, mkdirRes, invoked, runPhase, runRes, firstTime,
                   answeredAtStart, runningAtStart>>
    /\ UNCHANGED <<statRes, disconnected, seg>>
    /\ UNCHANGED lifeVars
    /\ UNCHANGED fsVars

\* A servePlaylist that calls os.Mkdir outside the existence test.
StatPlaylistMkdirAlways(r) ==
    /\ Alive
    /\ pc[r] = "stat"
    /\ pc' = [pc EXCEPT ![r] =
                 IF playlist[id[r]] = "absent" THEN "segment" ELSE "serve"]
    /\ statRes' = [statRes EXCEPT ![r] =
                      IF playlist[id[r]] = "absent" THEN "notExist"
                      ELSE "exists"]
    /\ mkdirRes' = [mkdirRes EXCEPT ![r] =
                       IF dir[id[r]] THEN "exists"
                       ELSE IF tempDir THEN "ok" ELSE "ioerr"]
    /\ dir' = [dir EXCEPT ![id[r]] = dir[id[r]] \/ tempDir]
    /\ UNCHANGED <<kind, id, lookupRes, invoked, runPhase, runRes, resp,
                   firstTime, answeredAtStart, runningAtStart>>
    /\ UNCHANGED <<disconnected, seg>>
    /\ UNCHANGED lifeVars
    /\ UNCHANGED <<tempDir, playlist, segfile>>

\* A servePlaylist that prepares whether or not the playlist exists.
StatPlaylistAlwaysPrepares(r) ==
    /\ Alive
    /\ pc[r] = "stat"
    /\ pc' = [pc EXCEPT ![r] = "mkdir"]
    /\ statRes' = [statRes EXCEPT ![r] =
                      IF playlist[id[r]] = "absent" THEN "notExist"
                      ELSE "exists"]
    /\ UNCHANGED <<kind, id, lookupRes, mkdirRes, invoked, runPhase, runRes,
                   resp, firstTime, answeredAtStart, runningAtStart>>
    /\ UNCHANGED <<disconnected, seg>>
    /\ UNCHANGED lifeVars
    /\ UNCHANGED fsVars

\* servePlaylist: os.Stat(playlistPath) and os.IsNotExist(err).
StatPlaylist(r) ==
    /\ Alive
    /\ pc[r] = "stat"
    /\ pc' = [pc EXCEPT ![r] =
                 IF playlist[id[r]] = "absent" THEN "mkdir" ELSE "serve"]
    /\ statRes' = [statRes EXCEPT ![r] =
                      IF playlist[id[r]] = "absent" THEN "notExist"
                      ELSE "exists"]
    /\ UNCHANGED <<kind, id, lookupRes, mkdirRes, invoked, runPhase, runRes,
                   resp, firstTime, answeredAtStart, runningAtStart>>
    /\ UNCHANGED <<disconnected, seg>>
    /\ UNCHANGED lifeVars
    /\ UNCHANGED fsVars

\* A servePlaylist that answers with an error when os.Mkdir fails, the
\* already-exists error included.
MkdirExistsIsError(r) ==
    /\ Alive
    /\ pc[r] = "mkdir"
    /\ IF dir[id[r]]
         THEN /\ mkdirRes' = [mkdirRes EXCEPT ![r] = "exists"]
              /\ dir' = dir
              /\ resp' = [resp EXCEPT ![r] = handleError(500)]
              /\ pc' = [pc EXCEPT ![r] = "done"]
         ELSE /\ \/ /\ tempDir
                    /\ mkdirRes' = [mkdirRes EXCEPT ![r] = "ok"]
                    /\ dir' = [dir EXCEPT ![id[r]] = TRUE]
                 \/ /\ mkdirRes' = [mkdirRes EXCEPT ![r] = "ioerr"]
                    /\ dir' = dir
              /\ resp' = resp
              /\ pc' = [pc EXCEPT ![r] = "segment"]
    /\ UNCHANGED <<kind, id, lookupRes, invoked, runPhase, runRes,
                   firstTime, answeredAtStart, runningAtStart>>
    /\ UNCHANGED <<statRes, disconnected, seg>>
    /\ UNCHANGED lifeVars
    /\ UNCHANGED <<tempDir, playlist, segfile>>

\* servePlaylist: os.Mkdir(playlistDir, 0700); the error is discarded.
Mkdir(r) ==
    /\ Alive
    /\ pc[r] = "mkdir"
    /\ IF dir[id[r]]
         THEN /\ mkdirRes' = [mkdirRes EXCEPT ![r] = "exists"]
              /\ dir' = dir
         ELSE \/ /\ tempDir
                 /\ mkdirRes' = [mkdirRes EXCEPT ![r] = "ok"]
                 /\ dir' = [dir EXCEPT ![id[r]] = TRUE]
              \/ /\ mkdirRes' = [mkdirRes EXCEPT ![r] = "ioerr"]
                 /\ dir' = dir
    /\ pc' = [pc EXCEPT ![r] = "segment"]
    /\ UNCHANGED <<kind, id, lookupRes, invoked, runPhase, runRes, resp,
                   firstTime, answeredAtStart, runningAtStart>>
    /\ UNCHANGED <<statRes, disconnected, seg>>
    /\ UNCHANGED lifeVars
    /\ UNCHANGED <<tempDir, playlist, segfile>>

\* An hls.Segment that takes one lock shared by all songs before it starts
\* the process.
SegmentStartGlobalLock(r) ==
    /\ Alive
    /\ pc[r] = "segment"
    /\ \A q \in Requests : pc[q] # "running"
    /\ invoked' = [invoked EXCEPT ![r] = TRUE]
    /\ runPhase' = [runPhase EXCEPT ![r] = 0]
    /\ pc' = [pc EXCEPT ![r] = "running"]
    /\ UNCHANGED <<kind, id, lookupRes, mkdirRes, runRes, resp, firstTime,
                   answeredAtStart, runningAtStart>>
    /\ UNCHANGED <<statRes, disconnected, seg>>
    /\ UNCHANGED lifeVars
    /\ UNCHANGED fsVars

\* hls.Segment: exec.Command("mediafilesegmenter", ...) and cmd.Run() start
\* the external process; the handler blocks until it exits.
SegmentStart(r) ==
    /\ Alive
    /\ pc[r] = "segment"
    /\ invoked' = [invoked EXCEPT ![r] = TRUE]
    /\ runPhase' = [runPhase EXCEPT ![r] = 0]
    /\ pc' = [pc EXCEPT ![r] = "running"]
    /\ UNCHANGED <<kind, id, lookupRes, mkdirRes, runRes, resp, firstTime,
                   answeredAtStart, runningAtStart>>
    /\ UNCHANGED <<statRes, disconnected, seg>>
    /\ UNCHANGED lifeVars
    /\ UNCHANGED fsVars

\* The external process writes into the song's directory: it creates the
\* segment file, then finishes it and creates the playlist, then finishes the
\* playlist.  Creating a file that exists truncates it.
SegmentWrite(r) ==
    /\ Alive
    /\ pc[r] = "running"
    /\ dir[id[r]]
    /\ runPhase[r] < 3
    /\ runPhase' = [runPhase EXCEPT ![r] = runPhase[r] + 1]
    /\ segfile' = [segfile EXCEPT ![id[r]] =
                      IF runPhase[r] = 0 THEN "partial"
                      ELSE IF runPhase[r] = 1 THEN "complete"
                      ELSE segfile[id[r]]]
    /\ playlist' = [playlist EXCEPT ![id[r]] =
                       IF runPhase[r] = 1 THEN "partial"
                       ELSE IF runPhase[r] = 2 THEN "complete"
                       ELSE playlist[id[r]]]
    /\ UNCHANGED <<pc, kind, id, lookupRes, mkdirRes, invoked, runRes, resp,
                   firstTime, answeredAtStart, runningAtStart>>
    /\ UNCHANGED <<statRes, disconnected, seg>>
    /\ UNCHANGED lifeVars
    /\ UNCHANGED <<tempDir, dir>>

\* The external process exits and cmd.Run() returns: nil only after the
\* process has written all its files, an error at any point.  servePlaylist
\* discards the value.
SegmentExit(r) ==
    /\ Alive
    /\ pc[r] = "running"
    /\ \E e \in (IF runPhase[r] = 3 THEN {"nil", "err"} ELSE {"err"}) :
          runRes' = [runRes EXCEPT ![r] = e]
    /\ pc' = [pc EXCEPT ![r] = "serve"]
    /\ UNCHANGED <<kind, id, lookupRes, mkdirRes, invoked, runPhase, resp,
                   firstTime, answeredAtStart, runningAtStart>>
    /\ UNCHANGED <<statRes, disconnected, seg>>
    /\ UNCHANGED lifeVars
    /\ UNCHANGED fsVars

\* servePlaylist: http.ServeFile(w, r, playlistPath)
ServePlaylistFile(r) ==
    /\ Alive
    /\ pc[r] = "serve"
    /\ resp' = [resp EXCEPT ![r] = ServeFile(playlist[id[r]])]
    /\ pc' = [pc EXCEPT ![r] = "done"]
    /\ UNCHANGED <<kind, id, lookupRes, mkdirRes, invoked, runPhase, runRes,
                   firstTime, answeredAtStart, runningAtStart>>
    /\ UNCHANGED <<statRes, disconnected, seg>>
    /\ UNCHANGED lifeVars
    /\ UNCHANGED fsVars

\* A serveSegment that creates the song's directory before it serves.
ServeSegmentFileCreatesDir(r) ==
    /\ Alive
    /\ pc[r] = "serveSeg"
    /\ dir' = [dir EXCEPT ![id[r]] = TRUE]
    /\ resp' = [resp EXCEPT ![r] = ServeFile(FileAt(id[r], seg[r]))]
    /\ pc' = [pc EXCEPT ![r] = "done"]
    /\ UNCHANGED <<kind, id, lookupRes, mkdirRes, invoked, runPhase, runRes,
                   firstTime, answeredAtStart, runningAtStart>>
    /\ UNCHANGED <<statRes, disconnected, seg>>
    /\ UNCHANGED lifeVars
    /\ UNCHANGED <<tempDir, playlist, segfile>>

\* serveSegment: http.ServeFile(w, r, segPath)
ServeSegmentFile(r) ==
    /\ Alive
    /\ pc[r] = "serveSeg"
    /\ resp' = [resp EXCEPT ![r] = ServeFile(FileAt(id[r], seg[r]))]
    /\ pc' = [pc EXCEPT ![r] = "done"]
    /\ UNCHANGED <<kind, id, lookupRes, mkdirRes, invoked, runPhase, runRes,
                   firstTime, answeredAtStart, runningAtStart>>
    /\ UNCHANGED <<statRes, disconnected, seg>>
    /\ UNCHANGED lifeVars
    /\ UNCHANGED fsVars

(***************************************************************************)
\* A client whose closing of the connection ends the segmenter process, as
\* a command bound to the request's context would.
DisconnectCancelsRun(r) ==
    /\ Alive
    /\ pc[r] = "running"
    /\ ~disconnected[r]
    /\ disconnected' = [disconnected EXCEPT ![r] = TRUE]
    /\ runRes' = [runRes EXCEPT ![r] = "err"]
    /\ pc' = [pc EXCEPT ![r] = "serve"]
    /\ UNCHANGED <<kind, id, lookupRes, mkdirRes, invoked, runPhase, resp,
                   firstTime, answeredAtStart, runningAtStart, statRes, seg>>
    /\ UNCHANGED lifeVars
    /\ UNCHANGED fsVars

\* The client of r closes its connection while the handler is blocked in
\* hls.Segment.  exec.Command binds the process to no context and the handler
\* reads neither r.Context() nor the connection, so nothing else changes.
Disconnect(r) ==
    /\ Alive
    /\ pc[r] = "running"
    /\ ~disconnected[r]
    /\ disconnected' = [disconnected EXCEPT ![r] = TRUE]
    /\ UNCHANGED <<pc, kind, id, lookupRes, mkdirRes, invoked, runPhase,
                   runRes, resp, firstTime, answeredAtStart, runningAtStart,
                   statRes, seg>>
    /\ UNCHANGED lifeVars
    /\ UNCHANGED fsVars

(* Specifications.                                                          *)
(***************************************************************************)

\* The steps of a handler goroutine itself, from the lookup to the response.
HandlerStep(r) ==
    \/ CatchAllNotFound(r)
    \/ Lookup(r)
    \/ StatPlaylist(r)
    \/ Mkdir(r)
    \/ SegmentStart(r)
    \/ ServePlaylistFile(r)
    \/ ServeSegmentFile(r)

MainStep ==
    \/ SetTempDir
    \/ SpawnSignalGoroutine
    \/ ListenAndServe
    \/ ListenAndServeReturns
    \/ StartServerReturns

SignalStep ==
    \/ Notify
    \/ ReceiveSignal
    \/ ShutdownBegin
    \/ ShutdownReturns
    \/ RemoveAll
    \/ CloseIdleConnsClosed

Next ==
    \/ SetTempDir
    \/ SpawnSignalGoroutine
    \/ ListenAndServe
    \/ ListenAndServeReturns
    \/ StartServerReturns
    \/ Notify
    \/ Interrupt
    \/ ReceiveSignal
    \/ ShutdownBegin
    \/ ShutdownReturns
    \/ RemoveAll
    \/ CloseIdleConnsClosed
    \/ \E r \in Requests, k \in Kinds, i \in SongIDs : Begin(r, k, i)
    \/ \E r \in Requests : CatchAllNotFound(r)
    \/ \E r \in Requests : Lookup(r)
    \/ \E r \in Requests : StatPlaylist(r)
    \/ \E r \in Requests : Mkdir(r)
    \/ \E r \in Requests : SegmentStart(r)
    \/ \E r \in Requests : SegmentWrite(r)
    \/ \E r \in Requests : SegmentExit(r)
    \/ \E r \in Requests : ServePlaylistFile(r)
    \/ \E r \in Requests : ServeSegmentFile(r)
    \/ \E r \in Requests : Disconnect(r)

Spec == Init /\ [][Next]_vars

\* The Go scheduler runs every runnable goroutine; the external segmenter
\* process is under no such obligation and may never exit.
FairSpec ==
    /\ Spec
    /\ WF_vars(MainStep)
    /\ WF_vars(SignalStep)
    /\ \A r \in Requests : WF_vars(HandlerStep(r))

\* As FairSpec, and every segmenter process eventually exits, so that every
\* request in flight completes.
DrainSpec ==
    /\ FairSpec
    /\ \A r \in Requests : WF_vars(SegmentExit(r))

(***************************************************************************)
(* Properties.                                                              *)
(***************************************************************************)

\* The handler of r ran as a playlist request for a song the library holds.
PlaylistRequest(r) ==
    /\ pc[r] # "idle"
    /\ kind[r] = "playlist"
    /\ lookupRes[r] = "found"

\* Requests r and q overlapped: neither began after the other was answered.
Concurrent(r, q) ==
    /\ r # q
    /\ pc[r] # "idle"
    /\ pc[q] # "idle"
    /\ q \notin answeredAtStart[r]
    /\ r \notin answeredAtStart[q]

\* Number of segmenter runs started for song s.
RunsOf(s) == Cardinality({r \in Requests : invoked[r] /\ id[r] = s})

\* Two concurrent first-time playlist requests for one song, both answered.
ConcurrentFirstTime(r, q) ==
    /\ Concurrent(r, q)
    /\ id[r] = id[q]
    /\ PlaylistRequest(r) /\ firstTime[r] /\ pc[r] = "done"
    /\ PlaylistRequest(q) /\ firstTime[q] /\ pc[q] = "done"

\* C1: no two segmenter runs for the same song identifier are ever in
\* progress at the same time.
C1_AtMostOneRunPerSong ==
    \A r, q \in Requests :
        (r # q /\ pc[r] = "running" /\ pc[q] = "running") => id[r] # id[q]

\* C2: concurrent first-time playlist requests for the same existing song
\* invoke the segmenter exactly once in total.
C2_ConcurrentInvokeExactlyOnce ==
    \A r, q \in Requests :
        ConcurrentFirstTime(r, q) => RunsOf(id[r]) = 1

\* C3: when concurrent first-time playlist requests for the same song have
\* been answered and every segmenter run for the song succeeded, all of them
\* received the same content, the complete playlist of a finished run.
C3_ConcurrentSameCompletePlaylist ==
    \A r, q \in Requests :
        ( /\ ConcurrentFirstTime(r, q)
          /\ \A p \in Requests :
                 (invoked[p] /\ id[p] = id[r]) => runRes[p] = "nil" )
        => (resp[r] = "file complete" /\ resp[q] = "file complete")

\* Request r began after request q had been answered, both being playlist
\* requests for the same song of the library.
InSequence(q, r) ==
    /\ q \in answeredAtStart[r]
    /\ pc[r] = "done"
    /\ kind[q] = "playlist"
    /\ kind[r] = "playlist"
    /\ id[q] = id[r]
    /\ id[r] \in LibrarySongs

\* Number of segmenter runs request r started.
Invocations(r) == IF invoked[r] THEN 1 ELSE 0

\* The response to r is the content of a file.
ServedFile(r) == resp[r] \in {"file partial", "file complete"}

\* C4 as stated: two playlist requests for an existing song, the second
\* issued after the first was answered, invoke the segmenter at most once in
\* total.
C4_SequentialAtMostOnce ==
    \A q, r \in Requests :
        InSequence(q, r) => Invocations(q) + Invocations(r) <= 1

\* C4 amended: two playlist requests for an existing song, the second issued
\* after the first was answered with the playlist file, invoke the segmenter
\* at most once in total.
C4_SequentialAtMostOnceAfterPlaylist ==
    \A q, r \in Requests :
        (InSequence(q, r) /\ ServedFile(q))
        => Invocations(q) + Invocations(r) <= 1

\* The first request generated the playlist and the second was served it
\* without a run of its own.
C4_Witness ==
    \E q, r \in Requests :
        /\ InSequence(q, r)
        /\ invoked[q]
        /\ resp[q] = "file complete"
        /\ ~invoked[r]
        /\ resp[r] = "file complete"

\* C5: the workspace directory exists whenever a request handler is
\* executing; it is removed at most once, and only by the signal goroutine
\* after srv.Shutdown has returned.
C5_WorkspaceOutlivesRequests ==
    /\ \A r \in Requests : InFlight(r) => tempDir
    /\ removals <= 1
    /\ removals = 1 => (inShutdown /\ sigPc \in {"closeChan", "done"})
    /\ (sigPc # "notSpawned" /\ removals = 0) => tempDir

\* The workspace has been removed after a request that prepared a stream.
C5_Witness ==
    /\ removals = 1
    /\ ~tempDir
    /\ \E r \in Requests : pc[r] = "done" /\ invoked[r] /\ ServedFile(r)

\* The signal goroutine has received the interrupt signal.
InterruptReceived ==
    sigPc \in {"callShutdown", "shutdownWait", "removeAll", "closeChan",
               "done"}

\* The signal goroutine has called srv.Shutdown.
ShutdownStarted ==
    sigPc \in {"shutdownWait", "removeAll", "closeChan", "done"}

\* Lifecycle state Stopped: the workspace has been destroyed.
Stopped == sigPc \in {"closeChan", "done"} /\ ~tempDir

\* C6: after the interrupt signal has been received the lifecycle reaches
\* Stopped, even if a request in flight never completes.
C6_ShutdownWaitIsBounded == InterruptReceived ~> Stopped

\* C7: a playlist request for an existing song whose segmenter run failed,
\* or whose directory creation failed other than with already-exists, is
\* answered Internal Server Error.
C7_PreparationFailureIsInternalServerError ==
    \A r \in Requests :
        ( /\ PlaylistRequest(r)
          /\ pc[r] = "done"
          /\ (runRes[r] = "err" \/ mkdirRes[r] = "ioerr") )
        => resp[r] = "InternalServerError"

\* C8: a playlist or segment request whose lookup reports no such song
\* creates no directory, invokes no segmenter, serves no file, and is
\* answered Not Found.
C8_NonexistentSongNotFound ==
    \A r \in Requests :
        (kind[r] \in {"playlist", "segment"} /\ lookupRes[r] = "nil")
        => /\ mkdirRes[r] = "none"
           /\ ~invoked[r]
           /\ pc[r] \in {"done"}
           /\ resp[r] = "NotFound"

\* A playlist request and a segment request for an unknown song, answered.
C8_Witness ==
    /\ \E r \in Requests :
          kind[r] = "playlist" /\ lookupRes[r] = "nil" /\ pc[r] = "done"
    /\ \E r \in Requests :
          kind[r] = "segment" /\ lookupRes[r] = "nil" /\ pc[r] = "done"

\* C9: once srv.Shutdown has been called no request begins to be handled,
\* and, every request in flight completing, the lifecycle reaches Stopped.
C9_GracefulShutdown ==
    /\ [][ShutdownStarted =>
             \A r \in Requests : pc[r] = "idle" => pc'[r] = "idle"]_vars
    /\ ShutdownStarted ~> Stopped

\* Stopped has been reached after a shutdown that began with a request in
\* flight: the request was answered and a later slot never started.
C9_Witness ==
    /\ Stopped
    /\ \E r \in Requests : pc[r] = "done" /\ invoked[r]
    /\ \E r \in Requests : pc[r] = "idle"

\* C10: while a segmenter runs for one song, a playlist request for a
\* different song can begin as long as the server accepts requests, and every
\* step of such a request is enabled, up to the exit of its own segmenter run
\* and its response.
C10_DifferentSongsDoNotWait ==
    \A q, r \in Requests :
        ( /\ Alive
          /\ pc[q] = "running"
          /\ r # q
          /\ kind[r] = "playlist"
          /\ id[r] # id[q] )
        => /\ (pc[r] = "idle" /\ AcceptsConnections) =>
                  \E p \in Requests : \E i \in LibrarySongs \ {id[q]} :
                      ENABLED Begin(p, "playlist", i)
           /\ pc[r] = "lookup" => ENABLED Lookup(r)
           /\ pc[r] = "stat" => ENABLED StatPlaylist(r)
           /\ pc[r] = "mkdir" => ENABLED Mkdir(r)
           /\ pc[r] = "segment" => ENABLED SegmentStart(r)
           /\ pc[r] = "running" => ENABLED SegmentExit(r)
           /\ pc[r] = "serve" => ENABLED ServePlaylistFile(r)

\* A request for another song began while a segmenter was running, ran its
\* own segmenter to a successful exit, and the first run is still going.
C10_Witness ==
    \E q, r \in Requests :
        /\ pc[q] = "running"
        /\ q \in runningAtStart[r]
        /\ id[r] # id[q]
        /\ firstTime[r]
        /\ invoked[r]
        /\ runRes[r] = "nil"
        /\ resp[r] = "file complete"

\* A segmenter run for song s is in progress.
RunInProgress(s) == \E r \in Requests : pc[r] = "running" /\ id[r] = s

\* A segmenter run for song s has exited, with the given result.
RunExited(s, e) ==
    \E r \in Requests : invoked[r] /\ id[r] = s /\ runRes[r] = e

\* C11: while the workspace exists, if the playlist file of a song exists
\* then a segmenter run for the song has completed and none is in progress;
\* if it does not exist then no run for the song has completed successfully.
C11_PlaylistPresenceSignalsCompletion ==
    \A s \in SongIDs :
        removals = 0 =>
            /\ playlist[s] # "absent" =>
                  /\ RunExited(s, "nil") \/ RunExited(s, "err")
                  /\ ~RunInProgress(s)
            /\ playlist[s] = "absent" => ~RunExited(s, "nil")

\* A request for song s has been answered with its complete playlist.
AnsweredWithPlaylist(s) ==
    \E q \in Requests :
        /\ PlaylistRequest(q)
        /\ id[q] = s
        /\ pc[q] = "done"
        /\ resp[q] = "file complete"
        /\ invoked[q] => runRes[q] = "nil"

\* C17: before shutdown, once a playlist request for a song has been answered
\* with the generated playlist, nothing writes to the song's playlist and
\* segment files again: they stay complete.
C17_FilesStableAfterPlaylistServed ==
    \A s \in SongIDs :
        (AnsweredWithPlaylist(s) /\ removals = 0)
        => /\ playlist[s] = "complete"
           /\ segfile[s] = "complete"

\* C13: a playlist request whose os.Stat found the playlist present creates
\* no directory, starts no segmenter run and is answered with the file.
C13_ExistingPlaylistFastPath ==
    \A r \in Requests :
        statRes[r] = "exists"
        => /\ mkdirRes[r] = "none"
           /\ ~invoked[r]
           /\ pc[r] \in {"serve", "done"}
           /\ pc[r] = "done" => ServedFile(r)

\* A request found the playlist present and was answered with it.
C13_Witness ==
    \E r \in Requests :
        /\ statRes[r] = "exists"
        /\ pc[r] = "done"
        /\ resp[r] = "file complete"

\* Request q's segmenter run failed and left the song's directory without a
\* playlist; request r came after q was answered and still found no playlist.
RetryAfterFailure(q, r) ==
    /\ InSequence(q, r)
    /\ invoked[q]
    /\ runRes[q] = "err"
    /\ mkdirRes[q] \in {"ok", "exists"}
    /\ resp[q] = "404 page not found"
    /\ statRes[r] = "notExist"

\* C14: a request that has started its segmenter run is past the point of
\* starting one, so it starts at most one; and the playlist request that
\* follows a failed run finds the directory existing, is not answered with an
\* error for that, and starts the segmenter again.
C14_NoRetryButRerunOnNextRequest ==
    /\ \A r \in Requests :
           invoked[r] => pc[r] \in {"running", "serve", "done"}
    /\ \A q, r \in Requests :
           RetryAfterFailure(q, r)
           => /\ mkdirRes[r] = "exists"
              /\ invoked[r]
              /\ resp[r] # "InternalServerError"

\* The request after a failed run ran the segmenter again and got the playlist.
C14_Witness ==
    \E q, r \in Requests :
        /\ RetryAfterFailure(q, r)
        /\ invoked[r]
        /\ runRes[r] = "nil"
        /\ resp[r] = "file complete"

\* Song s has a directory only if a playlist request for s, a song of the
\* library, created it, and files only if such a request ran the segmenter.
EntriesComeFromPreparation ==
    \A s \in SongIDs :
        /\ dir[s] =>
              \E r \in Requests :
                  PlaylistRequest(r) /\ id[r] = s /\ mkdirRes[r] = "ok"
        /\ (playlist[s] # "absent" \/ segfile[s] # "absent") =>
              /\ dir[s]
              /\ \E r \in Requests :
                     PlaylistRequest(r) /\ id[r] = s /\ invoked[r]

\* The step is os.RemoveAll(h.TempDir).
TeardownStep == sigPc = "removeAll" /\ sigPc' = "closeChan"

\* The step is the os.Mkdir or a write of the segmenter run of a playlist
\* request for song s.
PreparationStep(s) ==
    \E r \in Requests :
        /\ kind[r] = "playlist"
        /\ lookupRes[r] = "found"
        /\ id[r] = s
        /\ pc[r] \in {"mkdir", "running"}
        /\ pc'[r] # pc[r] \/ runPhase'[r] # runPhase[r]

\* The step changes, respectively deletes, something of song s's entry.
EntryChanges(s) ==
    \/ dir'[s] # dir[s]
    \/ playlist'[s] # playlist[s]
    \/ segfile'[s] # segfile[s]

EntryShrinks(s) ==
    \/ dir[s] /\ ~dir'[s]
    \/ playlist[s] # "absent" /\ playlist'[s] = "absent"
    \/ segfile[s] # "absent" /\ segfile'[s] = "absent"

\* C15: a song's directory and files exist only through the preparation of a
\* playlist request for that existing song; only such a preparation or the
\* teardown changes them, and only the teardown deletes them.
C15_EntriesLazyAndNeverDeleted ==
    /\ []EntriesComeFromPreparation
    /\ [][\A s \in SongIDs :
              /\ EntryChanges(s) => (TeardownStep \/ PreparationStep(s))
              /\ EntryShrinks(s) => TeardownStep]_vars

\* A segment request and a playlist request for existing songs have been
\* answered; only the playlist request's song has an entry.
C15_Witness ==
    /\ \E r \in Requests :
          /\ kind[r] = "segment"
          /\ lookupRes[r] = "found"
          /\ pc[r] = "done"
          /\ ~dir[id[r]]
    /\ \E q \in Requests :
          /\ PlaylistRequest(q)
          /\ pc[q] = "done"
          /\ dir[id[q]]
          /\ playlist[id[q]] = "complete"

\* C18: StartServer has returned only if the signal goroutine received an
\* interrupt, srv.Shutdown returned, the workspace was removed and the channel
\* was closed, also when ListenAndServe failed to bind the port.
C18_ReturnsOnlyAfterTeardown ==
    mainPc = "returned"
    => /\ sigPc = "done"
       /\ inShutdown
       /\ removals = 1
       /\ ~tempDir
       /\ idleConnsClosed

\* StartServer has returned after a ListenAndServe that failed to bind.
C18_Witness == mainPc = "returned" /\ listenErr = "bind"

\* C16: a client's disconnecting changes nothing of the running segmenter
\* process, which can go on writing and exit; and after the run of a
\* disconnected request succeeded, a later playlist request for the song is
\* served the playlist without a run of its own.
C16_RunSurvivesDisconnect ==
    /\ [](\A r \in Requests :
              (Alive /\ disconnected[r] /\ pc[r] = "running")
              => /\ ENABLED SegmentExit(r)
                 /\ (dir[id[r]] /\ runPhase[r] < 3) => ENABLED SegmentWrite(r))
    /\ [](\A q, r \in Requests :
              ( /\ InSequence(q, r)
                /\ disconnected[q]
                /\ runRes[q] = "nil"
                /\ lookupRes[r] = "found" )
              => (~invoked[r] /\ ServedFile(r)))
    /\ [][\A r \in Requests :
              disconnected'[r] # disconnected[r]
              => /\ pc'[r] = pc[r]
                 /\ runPhase'[r] = runPhase[r]
                 /\ runRes'[r] = runRes[r]
                 /\ dir' = dir /\ playlist' = playlist /\ segfile' = segfile
          ]_vars

\* The client of q disconnected during the run, the run succeeded, and a later
\* request got the playlist without running the segmenter.
C16_Witness ==
    \E q, r \in Requests :
        /\ InSequence(q, r)
        /\ disconnected[q]
        /\ runRes[q] = "nil"
        /\ ~invoked[r]
        /\ resp[r] = "file complete"

\* The filename component holds a slash, a ".." or is an absolute path.
ContainsSlash(s) == \E i \in 1..Len(s) : s[i] = "/"
ContainsDotDot(s) == \E i \in 1..(Len(s) - 1) : s[i] = "." /\ s[i + 1] = "."
IsAbsolute(s) == Len(s) > 0 /\ s[1] = "/"
UnsafeName(s) == ContainsSlash(s) \/ ContainsDotDot(s) \/ IsAbsolute(s)

\* Request r has reached serveSegment, which joins seg[r] onto the workspace
\* path and hands the result to http.ServeFile.
ReachedServeSegment(r) ==
    /\ kind[r] = "segment"
    /\ \/ pc[r] = "serveSeg"
       \/ pc[r] = "done" /\ resp[r] \in {"404 page not found", "file partial",
                                         "file complete"}

\* C12: a segment request whose filename component holds a slash, a ".." or
\* is an absolute path never reaches serveSegment and is answered Not Found;
\* every path serveSegment serves names a file directly inside the song's
\* directory.
C12_SegmentNameRejectedBeforeJoin ==
    \A r \in Requests :
        (kind[r] = "segment" /\ pc[r] # "idle")
        => /\ UnsafeName(seg[r]) =>
                 /\ ~ReachedServeSegment(r)
                 /\ (pc[r] = "done" /\ lookupRes[r] # "err")
                        => resp[r] = "NotFound"
           /\ ReachedServeSegment(r) => ~ContainsSlash(seg[r])

====
